---- MODULE Spec2Model ----
(***************************************************************************)
(* A model of the files_manager service: the users collection, the Redis   *)
(* session store, the files collection, the blob directory and the         *)
(* thumbnail queue, driven by the HTTP handlers of the controllers.        *)
(*                                                                         *)
(* Granularity.  A handler is one atomic step where its store reads are    *)
(* of insert-only data and it performs at most one write; the handlers     *)
(* that touch the same key or document again after an await (postNew,      *)
(* getDisconnect, putPublish, putUnpublish) are two steps, with the        *)
(* suspended request held in inflight.  Redis commands of the single       *)
(* client connection are executed in issue order, so a command takes       *)
(* effect where it is issued.  Outages of Redis or MongoDB are not         *)
(* modelled.                                                               *)
(*                                                                         *)
(* Identifiers.  A user's _id is its index in users, a file's _id its      *)
(* index in files; tokens (uuid v4) are drawn from a counter.  Strings that*)
(* the code parses (credentials) are sequences of one-character strings.   *)
(***************************************************************************)
EXTENDS Integers, Sequences, FiniteSets, TLC

\* ---------------------------------------------------------------- bounds
MaxUsers == 2
MaxTokens == 2
MaxFiles == 1
MaxInFlight == 1
MaxUploads == 2
MaxTicks == 3
MaxConcurrent == 2
MaxListed == 42
MaxJobs == 2

\* ------------------------------------------------------- program constants
NoToken == 0
NullId == 0
\* redisClient.set(key, value, 86400): the seconds a session lives.
SessionTTL == 86400
\* The clock advances in steps of half that time.
TickSeconds == SessionTTL \div 2

VARIABLES
  users,      \* the users collection: <<[email, password]>>, _id = index
  sessions,   \* Redis: token -> [user id, expiry time], the keys auth_<token> alive
  clock,      \* the time, in seconds
  nextToken,  \* the next uuid generateAuthToken returns
  issued,     \* history: token -> the credentials its login presented, and when
  revoked,    \* history: the tokens whose logout was answered 204
  files,      \* the files collection, _id = index
  blobs,      \* the files written under the storage root, path = index
  queue,      \* the jobs added to fileQueue
  queueUp,    \* whether fileQueue takes jobs: while it does not, add() rejects
  jobs,       \* what the queue records of each job a worker has taken
  renditions, \* the thumbnail files written: <<localPath, width>>
  inflight,   \* the requests suspended at an await
  resp        \* the last response

vars ==
  <<users, sessions, clock, nextToken, issued, revoked, files, blobs, queue, queueUp,
    jobs, renditions, inflight, resp>>

\* ------------------------------------------------------------ JS values
\* `undefined`, as a value comparable with the character sequences.
Undefined == <<"undefined">>

\* !x for a string-or-undefined x: undefined and "" are falsy.
Falsy(x) == x = Undefined \/ x = <<>>

RECURSIVE SplitAcc(_, _, _)
SplitAcc(s, cur, acc) ==
  IF s = <<>> THEN Append(acc, cur)
  ELSE IF Head(s) = ":" THEN SplitAcc(Tail(s), <<>>, Append(acc, cur))
  ELSE SplitAcc(Tail(s), Append(cur, Head(s)), acc)

\* String.prototype.split(':'): the segments between the separators.
Split(s) == SplitAcc(s, <<>>, <<>>)

\* Array destructuring: the element at position i, or undefined.
At(parts, i) == IF i <= Len(parts) THEN parts[i] ELSE Undefined

\* ------------------------------------------------------------ utils/auth
\* SHA-1 hex digest: a one-way digest, modelled as a tag on the input (no
\* two inputs of the model collide).
hashPassword(password) == <<"sha1">> \o password

verifyPassword(plainPassword, hashedPassword) ==
  hashPassword(plainPassword) = hashedPassword

\* ------------------------------------------------------------ HTTPError
\* What the client of the last answered (or abandoned) request saw: the
\* handler, the X-Token presented, whether that token's logout had already
\* been answered 204 when the request arrived (late), the request's other
\* inputs, the status (0: the handler ended without sending a response),
\* the error message of an error body, the JSON documents of a success
\* body, and the token of a login.
Response(op, tok, late, req, status, error, body, token) ==
  [op |-> op, tok |-> tok, late |-> late, req |-> req, status |-> status,
   error |-> error, body |-> body, token |-> token]

NoRequest == [none |-> TRUE]
NoResponse == Response("", NoToken, FALSE, NoRequest, 0, "", <<>>, NoToken)

unauthorized(op, tok, late, req, msg) == Response(op, tok, late, req, 401, msg, <<>>, NoToken)
badRequest(op, tok, late, req, msg) == Response(op, tok, late, req, 400, msg, <<>>, NoToken)
notFound(op, tok, late, req) == Response(op, tok, late, req, 404, "Not found", <<>>, NoToken)
internalServerError(op, tok, late, req, msg) == Response(op, tok, late, req, 500, msg, <<>>, NoToken)

\* ------------------------------------------------------------ utils/misc
\* Texts are sequences of one-character strings, bytes are 0..255, decoded
\* texts are sequences of code points.
B64Chars ==
  <<"A", "B", "C", "D", "E", "F", "G", "H", "I", "J", "K", "L", "M", "N", "O", "P",
    "Q", "R", "S", "T", "U", "V", "W", "X", "Y", "Z", "a", "b", "c", "d", "e", "f",
    "g", "h", "i", "j", "k", "l", "m", "n", "o", "p", "q", "r", "s", "t", "u", "v",
    "w", "x", "y", "z", "0", "1", "2", "3", "4", "5", "6", "7", "8", "9", "+", "/">>

B64Value(c) == (CHOOSE i \in 1..64 : B64Chars[i] = c) - 1

\* The 6-bit values of a base64 text up to its padding.
RECURSIVE B64Sextets(_)
B64Sextets(text) ==
  IF text = <<>> \/ Head(text) = "=" THEN <<>>
  ELSE <<B64Value(Head(text))>> \o B64Sextets(Tail(text))

RECURSIVE B64Bytes(_)
B64Bytes(v) ==
  IF Len(v) < 2 THEN <<>>
  ELSE IF Len(v) = 2 THEN <<(v[1] * 4) + (v[2] \div 16)>>
  ELSE IF Len(v) = 3 THEN <<(v[1] * 4) + (v[2] \div 16), ((v[2] % 16) * 16) + (v[3] \div 4)>>
  ELSE <<(v[1] * 4) + (v[2] \div 16), ((v[2] % 16) * 16) + (v[3] \div 4),
         ((v[3] % 4) * 64) + v[4]>>
       \o B64Bytes(SubSeq(v, 5, Len(v)))

\* Buffer.from(text, 'base64')
Base64Decode(text) == B64Bytes(B64Sextets(text))

\* buffer.toString('base64')
RECURSIVE Base64Encode(_)
Base64Encode(bytes) ==
  LET c(n) == B64Chars[n + 1]
  IN IF bytes = <<>> THEN <<>>
     ELSE IF Len(bytes) = 1 THEN
       <<c(bytes[1] \div 4), c((bytes[1] % 4) * 16), "=", "=">>
     ELSE IF Len(bytes) = 2 THEN
       <<c(bytes[1] \div 4), c(((bytes[1] % 4) * 16) + (bytes[2] \div 16)),
         c((bytes[2] % 16) * 4), "=">>
     ELSE <<c(bytes[1] \div 4), c(((bytes[1] % 4) * 16) + (bytes[2] \div 16)),
            c(((bytes[2] % 16) * 4) + (bytes[3] \div 64)), c(bytes[3] % 64)>>
          \o Base64Encode(SubSeq(bytes, 4, Len(bytes)))

\* U+FFFD, which the decoder puts for every ill-formed byte sequence.
Replacement == 65533

\* The bytes allowed after the lead byte b of a multi-byte sequence.
SecondByteRange(b) ==
  IF b = 224 THEN 160..191
  ELSE IF b = 237 THEN 128..159
  ELSE IF b = 240 THEN 144..191
  ELSE IF b = 244 THEN 128..143
  ELSE 128..191

\* buffer.toString('utf-8'): the code points, one U+FFFD for each maximal
\* ill-formed part.
RECURSIVE Utf8Decode(_)
Utf8Decode(bytes) ==
  IF bytes = <<>> THEN <<>>
  ELSE
    LET b == bytes[1]
        need == IF b \in 194..223 THEN 1 ELSE IF b \in 224..239 THEN 2
                ELSE IF b \in 240..244 THEN 3 ELSE 0
        ok(k) == /\ k + 1 <= Len(bytes)
                 /\ bytes[k + 1] \in (IF k = 1 THEN SecondByteRange(b) ELSE 128..191)
        \* the continuation bytes that are well-formed, up to need
        good == IF need >= 1 /\ ok(1)
                THEN IF need >= 2 /\ ok(2)
                     THEN IF need >= 3 /\ ok(3) THEN 3 ELSE 2
                     ELSE 1
                ELSE 0
        rest(k) == Utf8Decode(SubSeq(bytes, k + 1, Len(bytes)))
    IN IF b < 128 THEN <<b>> \o rest(1)
       ELSE IF need = 0 \/ good < need THEN <<Replacement>> \o rest(1 + good)
       ELSE IF need = 1 THEN <<((b - 192) * 64) + (bytes[2] - 128)>> \o rest(2)
       ELSE IF need = 2 THEN
         <<((b - 224) * 4096) + ((bytes[2] - 128) * 64) + (bytes[3] - 128)>> \o rest(3)
       ELSE <<((b - 240) * 262144) + ((bytes[2] - 128) * 4096) + ((bytes[3] - 128) * 64)
              + (bytes[4] - 128)>> \o rest(4)

\* The UTF-8 bytes fs.writeFile writes for a string.
RECURSIVE Utf8Encode(_)
Utf8Encode(text) ==
  IF text = <<>> THEN <<>>
  ELSE
    LET cp == text[1]
        first == IF cp < 128 THEN <<cp>>
                 ELSE IF cp < 2048 THEN <<192 + (cp \div 64), 128 + (cp % 64)>>
                 ELSE IF cp < 65536 THEN
                   <<224 + (cp \div 4096), 128 + ((cp \div 64) % 64), 128 + (cp % 64)>>
                 ELSE <<240 + (cp \div 262144), 128 + ((cp \div 4096) % 64),
                        128 + ((cp \div 64) % 64), 128 + (cp % 64)>>
    IN first \o Utf8Encode(Tail(text))

\* cipherTextToPlaintext: the base64 text decoded and read as UTF-8.
cipherTextToPlaintext(cipherText) == Utf8Decode(Base64Decode(cipherText))

\* saveToLocalFileSystem: fs.writeFile is started and true is returned at
\* once; the file is being written until the callback of writeFile runs.
saveToLocalFileSystem(data) == [bytes |-> Utf8Encode(data), state |-> "writing"]

\* The callback of fs.writeFile: the write ended, with an error or without.
\* An error is logged and nothing else; what a failed write leaves is not
\* the data.
writeFileCallback(path, err) ==
  /\ path \in 1..Len(blobs)
  /\ blobs[path].state = "writing"
  /\ blobs' = [blobs EXCEPT ![path] =
                 IF err THEN [bytes |-> <<>>, state |-> "failed"]
                 ELSE [bytes |-> blobs[path].bytes, state |-> "written"]]
  /\ UNCHANGED <<users, sessions, clock, nextToken, issued, revoked, files, queue, queueUp,
                 inflight, resp, jobs, renditions>>

\* The payloads uploaded: the base64 of "hi", of U+00E9 (bytes C3 A9) and of
\* the single byte FF.
DataHi == <<"a", "G", "k", "=">>
DataEAcute == <<"w", "6", "k", "=">>
DataFF == <<"/", "w", "=", "=">>

\* ------------------------------------------------------------ stores
\* RedisClient.get('auth_' + token): the stored user id, or null (0).
RedisGet(tok) == IF tok \in DOMAIN sessions THEN sessions[tok].user ELSE NullId

\* A variant of RedisClient.set that keeps the key twice as long.
RedisSetTwiceAsLong(tok, uid, duration) ==
  [k \in DOMAIN sessions \cup {tok} |->
     IF k = tok THEN [user |-> uid, expireAt |-> clock + 2 * duration] ELSE sessions[k]]

\* RedisClient.set(key, value, duration): SET key value EX duration
RedisSet(tok, uid, duration) ==
  [k \in DOMAIN sessions \cup {tok} |->
     IF k = tok THEN [user |-> uid, expireAt |-> clock + duration] ELSE sessions[k]]

\* A variant of RedisClient.del that deletes every key of the key's user.
RedisDelOfUser(tok) ==
  [k \in {t \in DOMAIN sessions : tok \notin DOMAIN sessions \/ sessions[t].user # sessions[tok].user}
     |-> sessions[k]]

\* RedisClient.del(key): deleting an absent key changes nothing.
RedisDel(tok) == [k \in DOMAIN sessions \ {tok} |-> sessions[k]]

\* users.findOne({ email }): the first matching document's _id, or null.
FindUserByEmail(email) ==
  LET hits == {i \in 1..Len(users) : users[i].email = email}
  IN IF hits = {} THEN NullId ELSE CHOOSE i \in hits : \A j \in hits : i <= j

\* users.findOne({ _id })
FindUserById(uid) == IF uid \in 1..Len(users) THEN uid ELSE NullId

\* ------------------------------------------------------------ inputs
Emails == {<<"a">>, <<"b">>}
Passwords == {<<"p">>, <<"p", ":", "q">>}
TokenInputs == 0..(MaxTokens + 1)

\* The Authorization headers tried: missing, a wrong scheme, and Basic
\* followed by the base64 of `email:password` or of a text without ':'.
\* Buffer.from(x, 'base64').toString('utf-8') of the base64 of ASCII text is
\* that text: the payload is held decoded.
Credentials == {e \o <<":">> \o p : e \in Emails, p \in Passwords} \cup Emails
AuthHeaders ==
  {<<>>} \cup {<<"Bearer", c>> : c \in {<<"a", ":", "p">>}} \cup {<<"Basic", c>> : c \in Credentials}

\* ------------------------------------------------------------ Init
Init ==
  /\ users = <<>>
  /\ sessions = <<>>
  /\ clock = 0
  /\ nextToken = 1
  /\ issued = <<>>
  /\ revoked = {}
  /\ files = <<>>
  /\ blobs = <<>>
  /\ queue = <<>>
  /\ queueUp = TRUE
  /\ jobs = <<>>
  /\ renditions = {}
  /\ inflight = {}
  /\ resp = NoResponse

\* resp holds a response only in the state its handler step leaves: the
\* transport takes it (Deliver) before the next step of any handler runs, so
\* every step of a handler is taken from a Ready state.
Ready == resp = NoResponse

Deliver ==
  /\ resp # NoResponse
  /\ resp' = NoResponse
  /\ UNCHANGED <<users, clock, queueUp, sessions, nextToken, issued, revoked, files, blobs, queue, inflight, jobs, renditions>>

\* The handler is suspended at an await: the request joins inflight under
\* the least free number.  A specification admits a step only if it leaves
\* at most cap requests suspended.
Within(cap) == Cardinality(inflight') <= cap
FreeSlot == CHOOSE n \in 1..(Cardinality(inflight) + 1) :
              /\ \A r \in inflight : r.n # n
              /\ \A m \in 1..(n - 1) : \E r \in inflight : r.n = m
Suspended(op, tok, req, pc) == [n |-> FreeSlot, op |-> op, tok |-> tok, req |-> req, pc |-> pc]

\* ------------------------------------------------- UsersController.postNew
\* Up to the await of findOne({ email }) and its result.
postNew(email, password) ==
  LET req == [email |-> email, password |-> password]
  IN /\ UNCHANGED <<users, clock, queueUp, sessions, nextToken, issued, revoked, files, blobs, queue, jobs, renditions>>
     /\ IF Falsy(email) THEN
          /\ resp' = badRequest("postNew", NoToken, FALSE, req, "Missing email")
          /\ UNCHANGED inflight
        ELSE IF Falsy(password) THEN
          /\ resp' = badRequest("postNew", NoToken, FALSE, req, "Missing password")
          /\ UNCHANGED inflight
        ELSE IF FindUserByEmail(email) # NullId THEN
          /\ resp' = badRequest("postNew", NoToken, FALSE, req, "Already exist")
          /\ UNCHANGED inflight
        ELSE
          /\ Len(users) + Cardinality({r \in inflight : r.op = "postNew"}) < MaxUsers
          /\ inflight' = inflight \cup {Suspended("postNew", NoToken, req, "insert")}
          /\ UNCHANGED resp

\* insertOne({ email, password: hashPassword(password) }) and the 201.
postNewInsert(r) ==
  /\ r.op = "postNew" /\ r.pc = "insert"
  /\ users' = Append(users, [email |-> r.req.email, password |-> hashPassword(r.req.password)])
  /\ inflight' = inflight \ {r}
  /\ resp' = Response("postNew", NoToken, FALSE, r.req, 201, "",
                      <<[id |-> Len(users) + 1, email |-> r.req.email]>>, NoToken)
  /\ UNCHANGED <<sessions, clock, queueUp, nextToken, issued, revoked, files, blobs, queue, jobs, renditions>>

\* ---------------------------------------------- AuthController.getConnect
\* const [email, password] = decodedCredentials.split(':')
ConnectEmail(authHeader) == At(Split(authHeader[2]), 1)
ConnectPassword(authHeader) == At(Split(authHeader[2]), 2)

getConnectResponse(authHeader) ==
  LET req == [header |-> authHeader]
  IN IF authHeader = <<>> THEN
       unauthorized("getConnect", NoToken, FALSE, req, "Authorization header is missing")
     ELSE IF Len(authHeader) # 2 \/ authHeader[1] # "Basic" THEN
       badRequest("getConnect", NoToken, FALSE, req, "Invalid Authorization format")
     ELSE LET uid == FindUserByEmail(ConnectEmail(authHeader))
              password == ConnectPassword(authHeader)
          IN IF uid = NullId THEN unauthorized("getConnect", NoToken, FALSE, req, "Unauthorized")
             \* hash.update(undefined) throws: the catch answers 500
             ELSE IF password = Undefined THEN
               internalServerError("getConnect", NoToken, FALSE, req,
                                   "An error occurred during authentication")
             ELSE IF ~verifyPassword(password, users[uid].password) THEN
               unauthorized("getConnect", NoToken, FALSE, req, "Unauthorized")
             ELSE Response("getConnect", NoToken, FALSE, req, 200, "", <<>>, nextToken)

getConnect(authHeader) ==
  LET r == getConnectResponse(authHeader)
  IN /\ r.status = 200 => nextToken <= MaxTokens
     /\ resp' = r
     /\ IF r.status = 200 THEN
          /\ sessions' = RedisSet(nextToken, FindUserByEmail(ConnectEmail(authHeader)), SessionTTL)
          /\ issued' = [t \in DOMAIN issued \cup {nextToken} |->
                          IF t = nextToken THEN [credentials |-> authHeader[2], at |-> clock]
                          ELSE issued[t]]
          /\ nextToken' = nextToken + 1
        ELSE UNCHANGED <<sessions, issued, nextToken>>
     /\ UNCHANGED <<users, clock, queueUp, revoked, files, blobs, queue, inflight, jobs, renditions>>

\* ------------------------------------------- AuthController.getDisconnect
\* Up to the await of redisClient.get and its result.
getDisconnect(tok) ==
  /\ UNCHANGED <<users, clock, queueUp, sessions, nextToken, issued, revoked, files, blobs, queue, jobs, renditions>>
  /\ IF tok = NoToken THEN
       /\ resp' = unauthorized("getDisconnect", tok, FALSE, NoRequest, "Unauthorized")
       /\ UNCHANGED inflight
     ELSE IF RedisGet(tok) = NullId THEN
       /\ resp' = unauthorized("getDisconnect", tok, tok \in revoked, NoRequest, "Invalid token")
       /\ UNCHANGED inflight
     ELSE
       /\ inflight' = inflight \cup {Suspended("getDisconnect", tok, NoRequest, "del")}
       /\ UNCHANGED resp

\* redisClient.del and the 204.  The request found its token mapped when it
\* arrived, so no logout of that token had been answered then.
getDisconnectDel(r) ==
  /\ r.op = "getDisconnect" /\ r.pc = "del"
  /\ sessions' = RedisDel(r.tok)
  /\ revoked' = revoked \cup {r.tok}
  /\ inflight' = inflight \ {r}
  /\ resp' = Response("getDisconnect", r.tok, FALSE, NoRequest, 204, "", <<>>, NoToken)
  /\ UNCHANGED <<users, clock, queueUp, nextToken, issued, files, blobs, queue, jobs, renditions>>

\* Time passes: Redis drops the keys whose expiry time is reached.
Tick ==
  /\ clock + TickSeconds <= MaxTicks * TickSeconds
  /\ clock' = clock + TickSeconds
  /\ sessions' = [k \in {t \in DOMAIN sessions : sessions[t].expireAt > clock'} |-> sessions[k]]
  /\ UNCHANGED <<users, queueUp, nextToken, issued, revoked, files, blobs, queue, inflight, resp, jobs, renditions>>

\* ------------------------------------------ UsersController.getUserData
\* "throw" when the header is missing, else the user's _id or null.
getUserData(tok) ==
  IF tok = NoToken THEN [threw |-> TRUE, user |-> NullId]
  ELSE IF RedisGet(tok) = NullId THEN [threw |-> FALSE, user |-> NullId]
  ELSE IF FindUserById(RedisGet(tok)) = NullId THEN [threw |-> TRUE, user |-> NullId]
  ELSE [threw |-> FALSE, user |-> RedisGet(tok)]

\* ------------------------------------------------ UsersController.getMe
\* With no user the handler calls HTTPError.unauthorized(request):
\* request.status is not a function, the TypeError lands in the catch, which
\* answers 401 on the response.
getMeResponse(tok) ==
  LET u == getUserData(tok)
  IN IF u.threw \/ u.user = NullId THEN
       unauthorized("getMe", tok, tok \in revoked, NoRequest, "Unauthorized")
     ELSE Response("getMe", tok, tok \in revoked, NoRequest, 200, "",
                   <<[id |-> u.user, email |-> users[u.user].email]>>, NoToken)

getMe(tok) ==
  /\ resp' = getMeResponse(tok)
  /\ UNCHANGED <<users, clock, queueUp, sessions, nextToken, issued, revoked, files, blobs, queue, inflight, jobs, renditions>>

\* ------------------------------------------------------------ SpecAuth
\* Registration and sessions alone: no file is ever uploaded.
NextAuth ==
  \/ Ready /\ \E e \in Emails \cup {Undefined}, p \in Passwords \cup {Undefined} : postNew(e, p) /\ Within(MaxInFlight)
  \/ Ready /\ \E r \in inflight : postNewInsert(r)
  \/ Ready /\ \E h \in AuthHeaders : getConnect(h)
  \/ Ready /\ \E t \in TokenInputs : getDisconnect(t) /\ Within(MaxInFlight)
  \/ Ready /\ \E r \in inflight : getDisconnectDel(r)
  \/ Ready /\ \E t \in TokenInputs : getMe(t)
  \/ Ready /\ Tick
  \/ Deliver

SpecAuth == Init /\ [][NextAuth]_vars

\* ------------------------------------------------------------ ObjectId
\* A client-supplied identifier: absent, the string "0", the number 0, a
\* string that is no ObjectId ("bad"), or the 24 hex digits of the id.
IdUndefined == [kind |-> "undefined", id |-> NullId]
IdStr0 == [kind |-> "str0", id |-> NullId]
IdNum0 == [kind |-> "num0", id |-> NullId]
IdBad == [kind |-> "bad", id |-> NullId]
IdHex(k) == [kind |-> "hex", id |-> k]

\* The _id ObjectId(0) generates: a fresh id with timestamp 0, the _id of no
\* document.
GenOid == -1

\* ObjectId.isValid: null is not, a number is, a string of 24 hex digits is.
ObjectIdIsValid(x) == x.kind \in {"num0", "hex"}

\* ObjectId(x): null or a number generates an id, a valid string converts,
\* anything else throws.
ObjectId(x) ==
  IF x.kind \in {"undefined", "num0"} THEN [threw |-> FALSE, oid |-> GenOid]
  ELSE IF x.kind = "hex" THEN [threw |-> FALSE, oid |-> x.id]
  ELSE [threw |-> TRUE, oid |-> NullId]

\* files.findOne({ _id })
FindFileById(oid) == IF oid \in 1..Len(files) THEN oid ELSE NullId

\* Variants of the owner filter: none, and the filter of a read rule that
\* also admits public documents.
FindFileByIdAnyUser(oid, uid) == IF oid \in 1..Len(files) THEN oid ELSE NullId
FindFileByIdIfPublic(oid, uid) ==
  IF oid \in 1..Len(files) /\ (files[oid].userId = uid \/ files[oid].isPublic) THEN oid ELSE NullId

\* files.findOne({ _id, userId })
FindFileByIdAndUser(oid, uid) ==
  IF oid \in 1..Len(files) /\ files[oid].userId = uid THEN oid ELSE NullId

\* The JSON sent for a file document: every field but localPath, _id as id.
Projection(i, doc) ==
  [id |-> i, userId |-> doc.userId, name |-> doc.name, type |-> doc.type,
   isPublic |-> doc.isPublic, parentId |-> doc.parentId]

\* --------------------------------------------- FilesController.postUpload
acceptedFileTypes == {"folder", "file", "image"}

\* A variant of validateFileRequest that checks the type before the name.
validateFileRequestTypeFirst(body) ==
  IF body.type = "undefined" \/ body.type \notin acceptedFileTypes THEN "Missing type"
  ELSE IF body.name = "undefined" THEN "Missing name"
  ELSE IF body.data = Undefined /\ body.type # "folder" THEN "Missing data"
  ELSE LET parentId == IF body.parentId = IdUndefined THEN IdStr0 ELSE body.parentId
       IN IF parentId = IdStr0 THEN ""
          ELSE IF ~ObjectIdIsValid(parentId) THEN "Invalid parentId format"
          ELSE LET parentFolder == FindFileById(ObjectId(parentId).oid)
               IN IF parentFolder = NullId THEN "Parent not found"
                  ELSE IF files[parentFolder].type # "folder" THEN "Parent is not a folder"
                  ELSE ""

\* The message of the 400 validateFileRequest sends, or "" when it sends none.
validateFileRequest(body) ==
  IF body.name = "undefined" THEN "Missing name"
  ELSE IF body.type = "undefined" \/ body.type \notin acceptedFileTypes THEN "Missing type"
  ELSE IF body.data = Undefined /\ body.type # "folder" THEN "Missing data"
  ELSE LET parentId == IF body.parentId = IdUndefined THEN IdStr0 ELSE body.parentId
       IN IF parentId = IdStr0 THEN ""
          ELSE IF ~ObjectIdIsValid(parentId) THEN "Invalid parentId format"
          ELSE LET parentFolder == FindFileById(ObjectId(parentId).oid)
               IN IF parentFolder = NullId THEN "Parent not found"
                  ELSE IF files[parentFolder].type # "folder" THEN "Parent is not a folder"
                  ELSE ""

\* const validParentId = parentId === '0' ? null : ObjectId(parentId), on the
\* parentId postUpload destructured with the default 0.
validParentId(body) ==
  LET parentId == IF body.parentId = IdUndefined THEN IdNum0 ELSE body.parentId
  IN IF parentId = IdStr0 THEN [threw |-> FALSE, oid |-> NullId] ELSE ObjectId(parentId)

fileDocument(user, body) ==
  [userId |-> user, name |-> body.name, type |-> body.type,
   isPublic |-> body.isPublic = "true", parentId |-> validParentId(body).oid]

\* validateFileRequest answers a failed check with HTTPError.badRequest, whose
\* value is the response object: its .error is undefined, so postUpload goes
\* on to build and store the document; the 201 it then tries to send throws,
\* the headers being sent already.
StoresDocument(body) ==
  /\ ~validParentId(body).threw
  /\ body.type = "folder" \/ body.data # Undefined

postUpload(tok, body) ==
  LET u == getUserData(tok)
      late == tok \in revoked
      err == validateFileRequest(body)
      doc == fileDocument(u.user, body)
      id == Len(files) + 1
      path == Len(blobs) + 1
  IN /\ UNCHANGED <<users, clock, queueUp, sessions, nextToken, issued, revoked, inflight, jobs, renditions>>
     /\ IF u.threw THEN
          \* the rejection of getUserData leaves the handler: nothing is sent
          /\ resp' = Response("postUpload", tok, late, body, 0, "", <<>>, NoToken)
          /\ UNCHANGED <<files, blobs, queue>>
        ELSE IF u.user = NullId THEN
          /\ resp' = unauthorized("postUpload", tok, late, body, "Unauthorized")
          /\ UNCHANGED <<files, blobs, queue>>
        ELSE
          /\ resp' = IF err # "" THEN badRequest("postUpload", tok, late, body, err)
                     \* fileQueue.add rejects: the catch of createFile answers 500
                     ELSE IF body.type = "image" /\ ~queueUp THEN
                       internalServerError("postUpload", tok, late, body, "Internal Server Error")
                     ELSE Response("postUpload", tok, late, body, 201, "",
                                   <<Projection(id, doc)>>, NoToken)
          /\ IF ~StoresDocument(body) THEN UNCHANGED <<files, blobs, queue>>
             ELSE IF body.type = "folder" THEN
               \* createFolder
               /\ files' = Append(files, doc @@ [localPath |-> NullId])
               /\ UNCHANGED <<blobs, queue>>
             ELSE
               \* createFile
               /\ blobs' = Append(blobs, saveToLocalFileSystem(cipherTextToPlaintext(body.data)))
               /\ files' = Append(files, doc @@ [localPath |-> path])
               /\ queue' = IF body.type = "image" /\ queueUp
                           THEN Append(queue, [userId |-> u.user, fileId |-> id])
                           ELSE queue

\* ------------------------------------------------ FilesController.getShow
getShowResponse(tok, id) ==
  LET userId == RedisGet(tok)
      late == tok \in revoked
      req == [id |-> id]
      file == FindFileByIdAndUser(ObjectId(id).oid, userId)
  IN IF userId = NullId THEN unauthorized("getShow", tok, late, req, "Unauthorized")
     ELSE IF ObjectId(id).threw THEN internalServerError("getShow", tok, late, req, "Server error")
     ELSE IF file = NullId THEN notFound("getShow", tok, late, req)
     ELSE Response("getShow", tok, late, req, 200, "", <<Projection(file, files[file])>>, NoToken)

getShow(tok, id) ==
  /\ resp' = getShowResponse(tok, id)
  /\ UNCHANGED <<users, clock, queueUp, sessions, nextToken, issued, revoked, files, blobs, queue, inflight, jobs, renditions>>

\* ----------------------------------------------- FilesController.getIndex
itemsPerPage == 20

\* The _ids of a set of documents in store (insertion) order.
RECURSIVE StoreOrder(_)
StoreOrder(ids) ==
  IF ids = {} THEN <<>>
  ELSE LET last == CHOOSE i \in ids : \A j \in ids : j <= i
       IN Append(StoreOrder(ids \ {last}), last)

\* A variant of $skip then $limit that keeps one document more.
SkipLimitInclusive(s, skip, limit) ==
  IF skip >= Len(s) THEN <<>>
  ELSE SubSeq(s, skip + 1, IF skip + limit + 1 < Len(s) THEN skip + limit + 1 ELSE Len(s))

\* $skip then $limit
SkipLimit(s, skip, limit) ==
  IF skip >= Len(s) THEN <<>>
  ELSE SubSeq(s, skip + 1, IF skip + limit < Len(s) THEN skip + limit ELSE Len(s))

\* With a token that maps to no user, getUserData returns null and dbUser._id
\* throws inside the inner try, whose catch answers 500.
getIndexResponse(tok, parentId, page) ==
  LET u == getUserData(tok)
      late == tok \in revoked
      req == [parentId |-> parentId, page |-> page]
      parent == IF parentId = IdStr0 THEN NullId
                ELSE IF parentId # IdUndefined /\ ObjectIdIsValid(parentId)
                  THEN ObjectId(parentId).oid
                ELSE NullId
      matched == {i \in 1..Len(files) : files[i].userId = u.user /\ files[i].parentId = parent}
      dbFiles == SkipLimit(StoreOrder(matched), page * itemsPerPage, itemsPerPage)
  IN IF u.threw THEN unauthorized("getIndex", tok, late, req, "Unauthorized")
     ELSE IF u.user = NullId THEN
       internalServerError("getIndex", tok, late, req, "Internal Server Error")
     ELSE Response("getIndex", tok, late, req, 200, "",
                   [k \in 1..Len(dbFiles) |-> Projection(dbFiles[k], files[dbFiles[k]])], NoToken)

getIndex(tok, parentId, page) ==
  /\ resp' = getIndexResponse(tok, parentId, page)
  /\ UNCHANGED <<users, clock, queueUp, sessions, nextToken, issued, revoked, files, blobs, queue, inflight, jobs, renditions>>

\* ------------------------------------ FilesController._publishOrUnpublish
\* A variant of _publishOrUnpublish whose update takes the owner as its filter
\* and so sets isPublic on every document of the owner.
publishOrUnpublishOfOwner(op, tok, id, isPublic) ==
  LET u == getUserData(tok)
      late == tok \in revoked
      req == [id |-> id, isPublic |-> isPublic]
      dbFile == FindFileByIdAndUser(ObjectId(id).oid, u.user)
  IN /\ UNCHANGED <<users, clock, queueUp, sessions, nextToken, issued, revoked, blobs, queue, jobs, renditions>>
     /\ IF u.threw \/ u.user = NullId \/ ObjectId(id).threw THEN
          /\ resp' = unauthorized(op, tok, late, req, "Unauthorized")
          /\ UNCHANGED <<files, inflight>>
        ELSE IF dbFile = NullId THEN
          /\ resp' = notFound(op, tok, late, req)
          /\ UNCHANGED <<files, inflight>>
        ELSE
          /\ files' = [i \in DOMAIN files |->
                         IF files[i].userId = u.user THEN [files[i] EXCEPT !.isPublic = isPublic]
                         ELSE files[i]]
          /\ inflight' = inflight \cup {Suspended(op, tok, [id |-> id, isPublic |-> isPublic,
                                                             file |-> dbFile], "findOne")}
          /\ UNCHANGED resp

\* Up to the await of updateOne: the session, the owner's document, the
\* update.  A missing user, like an id that is no ObjectId, throws inside the
\* outer try, whose catch answers 401.
publishOrUnpublish(op, tok, id, isPublic) ==
  LET u == getUserData(tok)
      late == tok \in revoked
      req == [id |-> id, isPublic |-> isPublic]
      dbFile == FindFileByIdAndUser(ObjectId(id).oid, u.user)
  IN /\ UNCHANGED <<users, clock, queueUp, sessions, nextToken, issued, revoked, blobs, queue, jobs, renditions>>
     /\ IF u.threw \/ u.user = NullId \/ ObjectId(id).threw THEN
          /\ resp' = unauthorized(op, tok, late, req, "Unauthorized")
          /\ UNCHANGED <<files, inflight>>
        ELSE IF dbFile = NullId THEN
          /\ resp' = notFound(op, tok, late, req)
          /\ UNCHANGED <<files, inflight>>
        ELSE
          /\ files' = [files EXCEPT ![dbFile].isPublic = isPublic]
          /\ inflight' = inflight \cup {Suspended(op, tok, [id |-> id, isPublic |-> isPublic,
                                                             file |-> dbFile], "findOne")}
          /\ UNCHANGED resp

putPublish(tok, id) == publishOrUnpublish("putPublish", tok, id, TRUE)

putUnpublish(tok, id) == publishOrUnpublish("putUnpublish", tok, id, FALSE)

\* findOne({ _id: dbFile._id }) and the 200 with the document as it is now.
publishOrUnpublishRespond(r) ==
  /\ r.op \in {"putPublish", "putUnpublish"} /\ r.pc = "findOne"
  /\ inflight' = inflight \ {r}
  /\ resp' = Response(r.op, r.tok, FALSE, [id |-> r.req.id, isPublic |-> r.req.isPublic], 200, "",
                      <<Projection(r.req.file, files[r.req.file])>>, NoToken)
  /\ UNCHANGED <<users, clock, queueUp, sessions, nextToken, issued, revoked, files, blobs, queue, jobs, renditions>>

\* ------------------------------------------------ FilesController.getFile
\* `mime` is not imported in the module: for a document that is no folder,
\* mime.lookup throws a ReferenceError inside the try, whose catch answers
\* 401, before the file is read.
getFileResponse(tok, id, size) ==
  LET u == getUserData(tok)
      late == tok \in revoked
      req == [id |-> id, size |-> size]
      dbFile == FindFileByIdAndUser(ObjectId(id).oid, u.user)
  IN IF u.threw \/ u.user = NullId \/ ObjectId(id).threw THEN
       unauthorized("getFile", tok, late, req, "Unauthorized")
     ELSE IF dbFile = NullId THEN notFound("getFile", tok, late, req)
     ELSE IF files[dbFile].type = "folder" THEN
       badRequest("getFile", tok, late, req, "A folder doesn't have content")
     ELSE unauthorized("getFile", tok, late, req, "Unauthorized")

getFile(tok, id, size) ==
  /\ resp' = getFileResponse(tok, id, size)
  /\ UNCHANGED <<users, clock, queueUp, sessions, nextToken, issued, revoked, files, blobs, queue, inflight, jobs, renditions>>

\* ------------------------------------------------------------ worker
\* const thumbnailSizes = [100, 250, 500]
thumbnailSizes == {100, 250, 500}

\* A producer other than createFile adds a job to fileQueue.
fileQueueAdd(data) ==
  /\ queueUp
  /\ Len(queue) < MaxJobs
  /\ queue' = Append(queue, data)
  /\ UNCHANGED <<users, sessions, clock, nextToken, issued, revoked, files, blobs, queueUp, inflight, resp, jobs, renditions>>

\* The error the handler throws before it starts the thumbnails, "" if none.
processError(data) ==
  IF data.fileId = NullId THEN "Missing fileId"
  ELSE IF data.userId = NullId THEN "Missing userId"
  ELSE IF FindFileByIdAndUser(data.fileId, data.userId) = NullId THEN "File not found"
  ELSE ""

\* The catch of the handler: job.moveToFailed is called and not awaited, and
\* the handler returns, which the queue takes as the job having completed.
processCatch(job, message) ==
  [job EXCEPT !.failing = TRUE, !.error = message, !.returning = TRUE]

\* The queue hands job j to the handler, which runs to the three
\* generateThumbnail calls of Promise.all, or to its catch.
fileQueueProcess(j) ==
  LET data == queue[j]
      message == processError(data)
      taken == [localPath |-> NullId, pending |-> {}, ok |-> {}, rejected |-> FALSE,
                failing |-> FALSE, error |-> "", returning |-> FALSE,
                failed |-> FALSE, failedReason |-> "", completed |-> FALSE]
  IN /\ j \in DOMAIN queue \ DOMAIN jobs
     /\ jobs' = jobs @@
          (j :> IF message # "" THEN processCatch(taken, message)
                ELSE [taken EXCEPT
                        !.localPath = files[FindFileByIdAndUser(data.fileId, data.userId)].localPath,
                        !.pending = thumbnailSizes])
     /\ UNCHANGED <<users, sessions, clock, nextToken, issued, revoked, files, blobs, queueUp, inflight, resp, queue, renditions>>

\* A variant of generateThumbnail without its catch: the error of the width
\* rejects the promise.
generateThumbnailRethrows(job, width, done) ==
  [job EXCEPT !.pending = @ \ {width},
              !.ok = IF done THEN @ \cup {width} ELSE @,
              !.rejected = @ \/ ~done]

\* generateThumbnail(file.localPath, width) settles: done tells whether
\* imageThumbnail and writeFile both succeeded; an error is logged and the
\* promise resolves all the same.
generateThumbnail(job, width, done) ==
  [job EXCEPT !.pending = @ \ {width},
              !.ok = IF done THEN @ \cup {width} ELSE @]

\* await Promise.all(thumbnailPromises): rejects with the first rejection,
\* resolves when every promise has; then the handler returns or catches.
PromiseAll(job) ==
  IF job.returning THEN job
  ELSE IF job.rejected THEN processCatch(job, "thumbnail")
  ELSE IF job.pending = {} THEN [job EXCEPT !.returning = TRUE]
  ELSE job

\* One width of job j settles.  imageThumbnail reads the file at localPath:
\* it can succeed only on a file whose write has finished.
generateThumbnailSettles(j, width, done) ==
  /\ j \in DOMAIN jobs
  /\ width \in jobs[j].pending
  /\ done => /\ jobs[j].localPath \in DOMAIN blobs
              /\ blobs[jobs[j].localPath].state = "written"
  /\ jobs' = [jobs EXCEPT ![j] = PromiseAll(generateThumbnail(@, width, done))]
  /\ renditions' = IF done THEN renditions \cup {<<jobs[j].localPath, width>>} ELSE renditions
  /\ UNCHANGED <<users, sessions, clock, nextToken, issued, revoked, files, blobs, queueUp, inflight, resp, queue>>

\* job.moveToFailed({ message }, true) takes effect in the queue.
moveToFailed(j) ==
  /\ j \in DOMAIN jobs
  /\ jobs[j].failing
  /\ jobs' = [jobs EXCEPT ![j].failing = FALSE, ![j].failed = TRUE,
                           ![j].failedReason = jobs[j].error]
  /\ UNCHANGED <<users, sessions, clock, nextToken, issued, revoked, files, blobs, queueUp, inflight, resp, queue, renditions>>

\* The handler has returned without an error: the queue moves the job to
\* completed.
moveToCompleted(j) ==
  /\ j \in DOMAIN jobs
  /\ jobs[j].returning
  /\ ~jobs[j].completed
  /\ jobs' = [jobs EXCEPT ![j].completed = TRUE]
  /\ UNCHANGED <<users, sessions, clock, nextToken, issued, revoked, files, blobs, queueUp, inflight, resp, queue, renditions>>

\* ------------------------------------------------------------ Spec
\* The file operations of two registered users, each holding a session: the
\* state after POST /users for a and for b, GET /connect for a at time 0 and
\* GET /connect for b one tick later.
InitFiles ==
  /\ users = <<[email |-> <<"a">>, password |-> hashPassword(<<"p">>)],
               [email |-> <<"b">>, password |-> hashPassword(<<"p">>)]>>
  /\ clock = TickSeconds
  /\ sessions = (1 :> [user |-> 1, expireAt |-> SessionTTL])
                @@ (2 :> [user |-> 2, expireAt |-> TickSeconds + SessionTTL])
  /\ nextToken = 3
  /\ issued = (1 :> [credentials |-> <<"a", ":", "p">>, at |-> 0])
              @@ (2 :> [credentials |-> <<"b", ":", "p">>, at |-> TickSeconds])
  /\ revoked = {}
  /\ files = <<>>
  /\ blobs = <<>>
  /\ queue = <<>>
  /\ queueUp = TRUE
  /\ jobs = <<>>
  /\ renditions = {}
  /\ inflight = {}
  /\ resp = NoResponse

\* Tokens 1 and 2 are the two sessions, 3 was never issued, 0 is no header.
FileTokens == 0..3
FileIds == {IdHex(k) : k \in 1..MaxFiles} \cup {IdBad}
Body(name, type, parentId, isPublic, data) ==
  [name |-> name, type |-> type, parentId |-> parentId, isPublic |-> isPublic, data |-> data]
AccessBodies ==
  {Body("n", t, IdStr0, pub, DataHi) : t \in {"folder", "file"}, pub \in {"undefined", "true"}}

\* The store holds at most cap documents: an upload that would insert one
\* more is not taken.
Room(cap, tok, body) ==
  (getUserData(tok).user # NullId /\ StoresDocument(body)) => Len(files) < cap

Next ==
  \/ Ready /\ \E t \in FileTokens, b \in AccessBodies : Room(MaxFiles, t, b) /\ postUpload(t, b)
  \/ Ready /\ \E t \in FileTokens, id \in FileIds : getShow(t, id)
  \/ Ready /\ \E t \in FileTokens, id \in {IdUndefined, IdStr0} \cup FileIds : getIndex(t, id, 0)
  \/ Ready /\ \E t \in FileTokens, id \in FileIds : putPublish(t, id) /\ Within(MaxInFlight)
  \/ Ready /\ \E t \in FileTokens, id \in FileIds : putUnpublish(t, id) /\ Within(MaxInFlight)
  \/ Ready /\ \E r \in inflight : publishOrUnpublishRespond(r)
  \/ Ready /\ \E t \in FileTokens, id \in FileIds : getFile(t, id, "undefined")
  \/ Ready /\ \E t \in FileTokens : getMe(t)
  \/ Ready /\ \E t \in FileTokens : getDisconnect(t) /\ Within(MaxInFlight)
  \/ Ready /\ \E r \in inflight : getDisconnectDel(r)
  \/ Ready /\ Tick
  \/ Deliver

Spec == InitFiles /\ [][Next]_vars

\* ------------------------------------------------------------ SpecUpload
\* POST /files alone, without a token and with the session of a, over every
\* shape of request body: a name or none, a type that is a folder, that has
\* content or that is not accepted, data or none, and every form of parentId.
UploadTokens == {0, 1}
UploadBodies ==
  {Body(n, t, p, "undefined", d) :
     n \in {"n", "undefined"},
     t \in {"folder", "image", "exe"},
     p \in {IdUndefined, IdStr0, IdNum0, IdBad} \cup {IdHex(k) : k \in 1..MaxUploads},
     d \in {DataHi, Undefined}}

NextUpload ==
  \/ Ready /\ \E t \in UploadTokens, b \in UploadBodies : Room(MaxUploads, t, b) /\ postUpload(t, b)
  \/ Deliver

SpecUpload == InitFiles /\ [][NextUpload]_vars

\* ------------------------------------------------------------ SpecBlob
\* Uploads by a into the root, of every type and payload, with the writes of
\* their files ending well or badly and the queue failing and recovering.
fileQueueFails ==
  /\ queueUp
  /\ queueUp' = FALSE
  /\ UNCHANGED <<users, sessions, clock, nextToken, issued, revoked, files, blobs, queue,
                 inflight, resp, jobs, renditions>>

fileQueueRecovers ==
  /\ ~queueUp
  /\ queueUp' = TRUE
  /\ UNCHANGED <<users, sessions, clock, nextToken, issued, revoked, files, blobs, queue,
                 inflight, resp, jobs, renditions>>

BlobBodies ==
  {Body("n", t, IdStr0, "undefined", d) :
     t \in {"folder", "file", "image"}, d \in {DataHi, DataEAcute, DataFF, Undefined}}

NextBlob ==
  \/ Ready /\ \E b \in BlobBodies : Room(MaxUploads, 1, b) /\ postUpload(1, b)
  \/ Ready /\ \E path \in 1..MaxUploads, err \in BOOLEAN : writeFileCallback(path, err)
  \/ Ready /\ fileQueueFails
  \/ Ready /\ fileQueueRecovers
  \/ Deliver

SpecBlob == InitFiles /\ [][NextBlob]_vars

\* ------------------------------------------------------------ SpecPublish
\* Publish and unpublish requests of both users on the documents of a, with
\* up to MaxConcurrent of them suspended at one time.
NextPublish ==
  \/ Ready /\ \E b \in AccessBodies : Room(MaxFiles, 1, b) /\ postUpload(1, b)
  \/ Ready /\ \E t \in {1, 2}, id \in FileIds : putPublish(t, id) /\ Within(MaxConcurrent)
  \/ Ready /\ \E t \in {1, 2}, id \in FileIds : putUnpublish(t, id) /\ Within(MaxConcurrent)
  \/ Ready /\ \E r \in inflight : publishOrUnpublishRespond(r)
  \/ Deliver

SpecPublish == InitFiles /\ [][NextPublish]_vars

\* ------------------------------------------------------------ SpecList
\* Both users upload folders and files that pass validation, into the root
\* or into a folder, and list their documents by parent.
ListBodies ==
  {Body("n", t, p, "undefined", DataHi) :
     t \in {"folder", "file"}, p \in {IdStr0} \cup {IdHex(k) : k \in 1..MaxUploads}}

NextList ==
  \/ Ready /\ \E t \in {1, 2}, b \in ListBodies :
       validateFileRequest(b) = "" /\ Room(MaxUploads, t, b) /\ postUpload(t, b)
  \/ Ready /\ \E t \in {1, 2}, id \in {IdUndefined, IdStr0} \cup {IdHex(k) : k \in 1..MaxUploads} :
       getIndex(t, id, 0)
  \/ Deliver

SpecList == InitFiles /\ [][NextList]_vars

\* ------------------------------------------------------------ SpecPage
\* User a fills the root with folders, after b has uploaded one or not, and
\* lists the root page by page.
PageBody == Body("n", "folder", IdStr0, "undefined", Undefined)

InitPage ==
  /\ users = <<[email |-> <<"a">>, password |-> hashPassword(<<"p">>)],
               [email |-> <<"b">>, password |-> hashPassword(<<"p">>)]>>
  /\ clock = TickSeconds
  /\ sessions = (1 :> [user |-> 1, expireAt |-> SessionTTL])
                @@ (2 :> [user |-> 2, expireAt |-> TickSeconds + SessionTTL])
  /\ nextToken = 3
  /\ issued = (1 :> [credentials |-> <<"a", ":", "p">>, at |-> 0])
              @@ (2 :> [credentials |-> <<"b", ":", "p">>, at |-> TickSeconds])
  /\ revoked = {}
  /\ files \in {<<>>, <<fileDocument(2, PageBody) @@ [localPath |-> NullId]>>}
  /\ blobs = <<>>
  /\ queue = <<>>
  /\ queueUp = TRUE
  /\ jobs = <<>>
  /\ renditions = {}
  /\ inflight = {}
  /\ resp = NoResponse

NextPage ==
  \/ Ready /\ Room(MaxListed, 1, PageBody) /\ postUpload(1, PageBody)
  \/ Ready /\ \E page \in 0..3 : getIndex(1, IdStr0, page)
  \/ Deliver

SpecPage == InitPage /\ [][NextPage]_vars

\* ------------------------------------------------------- SpecRegister
\* Registration alone, with two POST /users requests able to wait for the
\* store at the same time.
NextRegister ==
  \/ Ready /\ \E e \in Emails \cup {Undefined}, p \in Passwords \cup {Undefined} :
       postNew(e, p) /\ Within(MaxConcurrent)
  \/ Ready /\ \E r \in inflight : postNewInsert(r)
  \/ Deliver

SpecRegister == Init /\ [][NextRegister]_vars

\* The credentials text `email:password` a client encodes to log in.
BasicHeader(e, p) == <<"Basic", e \o <<":">> \o p>>

\* ------------------------------------------------------------ SpecTTL
\* Two registered users log in, use their tokens and log out while time
\* passes.
InitTTL ==
  /\ users = <<[email |-> <<"a">>, password |-> hashPassword(<<"p">>)],
               [email |-> <<"b">>, password |-> hashPassword(<<"p">>)]>>
  /\ clock = 0
  /\ sessions = <<>>
  /\ nextToken = 1
  /\ issued = <<>>
  /\ revoked = {}
  /\ files = <<>>
  /\ blobs = <<>>
  /\ queue = <<>>
  /\ queueUp = TRUE
  /\ jobs = <<>>
  /\ renditions = {}
  /\ inflight = {}
  /\ resp = NoResponse

NextTTL ==
  \/ Ready /\ \E e \in Emails : getConnect(BasicHeader(e, <<"p">>))
  \/ Ready /\ \E t \in TokenInputs : getMe(t)
  \/ Ready /\ \E t \in TokenInputs : getIndex(t, IdStr0, 0)
  \/ Ready /\ \E t \in TokenInputs : Room(MaxFiles, t, PageBody) /\ postUpload(t, PageBody)
  \/ Ready /\ \E t \in TokenInputs : getDisconnect(t) /\ Within(MaxInFlight)
  \/ Ready /\ \E r \in inflight : getDisconnectDel(r)
  \/ Ready /\ Tick
  \/ Deliver

SpecTTL == InitTTL /\ [][NextTTL]_vars

\* ------------------------------------------------------------ SpecWorker
\* User a uploads an image or a folder, another producer adds jobs of every
\* shape, and a worker processes the jobs while the writes of the uploaded
\* files end well or badly.
WorkerBodies == {Body("n", t, IdStr0, "undefined", DataHi) : t \in {"image", "folder"}}
JobData == [fileId : {NullId} \cup (1..MaxFiles), userId : {NullId, 1, 2}]

NextWorker ==
  \/ Ready /\ \E b \in WorkerBodies : Room(MaxFiles, 1, b) /\ postUpload(1, b)
  \/ Ready /\ \E path \in 1..MaxFiles, err \in BOOLEAN : writeFileCallback(path, err)
  \/ Ready /\ \E data \in JobData : fileQueueAdd(data)
  \/ Ready /\ \E j \in DOMAIN queue : fileQueueProcess(j)
  \/ Ready /\ \E j \in DOMAIN jobs, w \in thumbnailSizes, done \in BOOLEAN :
       generateThumbnailSettles(j, w, done)
  \/ Ready /\ \E j \in DOMAIN jobs : moveToFailed(j)
  \/ Ready /\ \E j \in DOMAIN jobs : moveToCompleted(j)
  \/ Deliver

SpecWorker == InitFiles /\ [][NextWorker]_vars

\* ------------------------------------------------------------ SpecResize
\* User a uploads images, a job of the queue is added once more, and a worker
\* processes the jobs while the writes of the uploaded files end well or
\* badly.
ImageBody == Body("n", "image", IdStr0, "undefined", DataHi)

NextResize ==
  \/ Ready /\ Room(MaxFiles, 1, ImageBody) /\ Len(queue) < MaxJobs /\ postUpload(1, ImageBody)
  \/ Ready /\ \E k \in DOMAIN queue : fileQueueAdd(queue[k])
  \/ Ready /\ \E path \in 1..MaxFiles, err \in BOOLEAN : writeFileCallback(path, err)
  \/ Ready /\ \E j \in DOMAIN queue : fileQueueProcess(j)
  \/ Ready /\ \E j \in DOMAIN jobs, w \in thumbnailSizes, done \in BOOLEAN :
       generateThumbnailSettles(j, w, done)
  \/ Ready /\ \E j \in DOMAIN jobs : moveToCompleted(j)
  \/ Deliver

SpecResize == InitFiles /\ [][NextResize]_vars

\* ------------------------------------------------------------ SpecFrame
\* User a, and user b once registered and logged in, upload private folders
\* and files, one more than in Spec, and read, publish and unpublish them.
FrameTokens == {1, 2}
FrameBodies == {Body("n", t, IdStr0, "undefined", DataHi) : t \in {"folder", "file"}}
FrameIds == {IdHex(k) : k \in 1..(MaxFiles + 1)}

NextFrame ==
  \/ Ready /\ \E t \in FrameTokens, b \in FrameBodies : Room(MaxFiles + 1, t, b) /\ postUpload(t, b)
  \/ Ready /\ \E t \in FrameTokens, id \in FrameIds : getShow(t, id)
  \/ Ready /\ \E t \in FrameTokens : getIndex(t, IdStr0, 0)
  \/ Ready /\ \E t \in FrameTokens, id \in FrameIds : putPublish(t, id) /\ Within(MaxInFlight)
  \/ Ready /\ \E t \in FrameTokens, id \in FrameIds : putUnpublish(t, id) /\ Within(MaxInFlight)
  \/ Ready /\ \E r \in inflight : publishOrUnpublishRespond(r)
  \/ Ready /\ \E t \in FrameTokens, id \in FrameIds : getFile(t, id, "undefined")
  \/ Ready /\ \E t \in FrameTokens : getMe(t)
  \/ Ready /\ \E e \in Emails : postNew(e, <<"p">>) /\ Within(MaxInFlight)
  \/ Ready /\ \E r \in inflight : postNewInsert(r)
  \/ Ready /\ getConnect(BasicHeader(<<"b">>, <<"p">>))
  \/ Deliver

\* The state after POST /users and GET /connect for a.
InitFrame ==
  /\ users = <<[email |-> <<"a">>, password |-> hashPassword(<<"p">>)]>>
  /\ clock = 0
  /\ sessions = (1 :> [user |-> 1, expireAt |-> SessionTTL])
  /\ nextToken = 2
  /\ issued = (1 :> [credentials |-> <<"a", ":", "p">>, at |-> 0])
  /\ revoked = {}
  /\ files = <<>>
  /\ blobs = <<>>
  /\ queue = <<>>
  /\ queueUp = TRUE
  /\ jobs = <<>>
  /\ renditions = {}
  /\ inflight = {}
  /\ resp = NoResponse

SpecFrame == InitFrame /\ [][NextFrame]_vars

\* ================================================================ claims
\* C1: for every registered user and every password whose hash is the stored
\* one, passwords containing ':' included, GET /connect with those Basic
\* credentials answers 200 with a token; and GET /users/me with a token whose
\* session is alive (no logout, no expiry) answers 200 with the email that
\* login presented.
C1_LoginThenAuthenticate ==
  /\ \A e \in Emails, p \in Passwords :
       ( /\ resp.op = "getConnect"
         /\ resp.req = [header |-> BasicHeader(e, p)]
         /\ \E i \in 1..Len(users) :
              users[i].email = e /\ users[i].password = hashPassword(p) )
       => (resp.status = 200 /\ resp.token # NoToken)
  /\ (resp.op = "getMe" /\ resp.tok \in DOMAIN sessions /\ resp.tok \in DOMAIN issued)
       => /\ resp.status = 200
          /\ \E e \in Emails, p \in Passwords :
               issued[resp.tok].credentials = e \o <<":">> \o p /\ resp.body[1].email = e

\* The operations that require a session.
ProtectedOps ==
  {"getDisconnect", "getMe", "postUpload", "getShow", "getIndex", "putPublish",
   "putUnpublish", "getFile"}

\* C2: once the logout of a token has been answered 204, every protected
\* operation that arrives with that token afterwards is answered 401.
C2_LoggedOutTokenUnauthorized ==
  (resp.op \in ProtectedOps /\ resp.late) => resp.status = 401

\* C3: a protected operation that arrives without X-Token, or with a token
\* that maps to no session, is answered with one 401 whose body is
\* {error: "Unauthorized"}: never 500, never no response.  (A step that
\* leaves inflight alone answers the request in the step it arrives in.)
C3_MissingOrDeadTokenUnauthorized ==
  [][ ( /\ resp = NoResponse /\ resp' # NoResponse
        /\ inflight' = inflight
        /\ resp'.op \in ProtectedOps
        /\ resp'.tok \notin DOMAIN sessions )
      => (resp'.status = 401 /\ resp'.error = "Unauthorized") ]_vars

\* The document a request names by the 24 hex digits of its _id, or NullId.
Named(id) == IF id.kind = "hex" /\ id.id \in 1..Len(files) THEN id.id ELSE NullId

\* C4: a user who does not own a document whose isPublic is false never
\* gets its projection from GET /files/:id, never gets it as an item of
\* GET /files, and never gets its content from GET /files/:id/data.
C4_PrivateNodeHidden ==
  /\ resp.op \in {"getShow", "getIndex"} =>
       \A k \in 1..Len(resp.body) :
         files[resp.body[k].id].isPublic \/ files[resp.body[k].id].userId = RedisGet(resp.tok)
  /\ (resp.op = "getFile" /\ Named(resp.req.id) # NullId /\ resp.status = 200) =>
       \/ files[Named(resp.req.id)].isPublic
       \/ files[Named(resp.req.id)].userId = RedisGet(resp.tok)

\* C4 witness: a user with a session asked for a private document of another
\* user by its id, and was answered 404.
C4_Witness ==
  /\ resp.op = "getShow" /\ resp.status = 404
  /\ Named(resp.req.id) # NullId
  /\ RedisGet(resp.tok) # NullId
  /\ files[Named(resp.req.id)].userId # RedisGet(resp.tok)
  /\ ~files[Named(resp.req.id)].isPublic

\* C5: a user with a session who does not own an existing document whose
\* isPublic is true gets its projection from GET /files/:id, and the content
\* of such a document that is no folder from GET /files/:id/data.
C5_PublicNodeReadable ==
  ( /\ resp.op \in {"getShow", "getFile"}
    /\ RedisGet(resp.tok) # NullId
    /\ Named(resp.req.id) # NullId
    /\ files[Named(resp.req.id)].isPublic
    /\ files[Named(resp.req.id)].userId # RedisGet(resp.tok)
    /\ resp.op = "getFile" => files[Named(resp.req.id)].type # "folder" )
  => resp.status = 200

PublishOps == {"putPublish", "putUnpublish"}

\* C6: isPublic of an existing document changes only in the step of a
\* publish or unpublish request that arrives with a session of the
\* document's owner; a publish or unpublish on a document of another user,
\* public or not, is answered with an error and changes no document.
C6_OnlyOwnerFlipsIsPublic ==
  [][ /\ \A i \in 1..Len(files) :
           files'[i].isPublic # files[i].isPublic =>
             \E r \in inflight' \ inflight :
               /\ r.op \in PublishOps
               /\ r.req.file = i
               /\ RedisGet(r.tok) = files[i].userId
      /\ ( /\ resp = NoResponse /\ resp'.op \in PublishOps
            /\ inflight' = inflight
            /\ Named(resp'.req.id) # NullId
            /\ files[Named(resp'.req.id)].userId # RedisGet(resp'.tok) )
          => (resp'.status \in {401, 404} /\ files' = files) ]_vars

\* C6 witness: an unpublish by a user with a session on a public document of
\* another user was answered 404, the document still public.
C6_Witness ==
  /\ resp.op = "putUnpublish" /\ resp.status = 404
  /\ Named(resp.req.id) # NullId
  /\ RedisGet(resp.tok) \notin {NullId, files[Named(resp.req.id)].userId}
  /\ files[Named(resp.req.id)].isPublic

\* C7: an upload that fails a validation check is answered with one 400 and
\* has no other effect: no document is inserted, no file is written, no job
\* is added to the queue.
C7_RejectedUploadHasNoEffect ==
  [][ (resp'.op = "postUpload" /\ resp'.status = 400) =>
        UNCHANGED <<files, blobs, queue>> ]_vars

\* C8: the checks of an upload run in the order name, type, data (unless a
\* folder), parentId format, parent existence, parent type, and the answer
\* carries the message of the first check that fails, or is the 201 when
\* none does.  The parent is looked up in the store as the request finds it.
C8_FirstFailingCheckWins ==
  [][ (resp = NoResponse /\ resp'.op = "postUpload" /\ resp'.status \in {201, 400}) =>
        LET b == resp'.req
            says(msg) == resp'.status = 400 /\ resp'.error = msg
        IN IF b.name = "undefined" THEN says("Missing name")
           ELSE IF b.type \notin {"folder", "file", "image"} THEN says("Missing type")
           ELSE IF b.type # "folder" /\ b.data = Undefined THEN says("Missing data")
           ELSE IF b.parentId \in {IdUndefined, IdStr0} THEN resp'.status = 201
           ELSE IF b.parentId = IdBad THEN says("Invalid parentId format")
           ELSE IF Named(b.parentId) = NullId THEN says("Parent not found")
           ELSE IF files[Named(b.parentId)].type # "folder" THEN says("Parent is not a folder")
           ELSE resp'.status = 201 ]_vars

\* C8 witness: an upload with neither name nor data, of a type that needs
\* data, was answered 'Missing name'.
C8_Witness ==
  /\ resp.op = "postUpload" /\ resp.status = 400 /\ resp.error = "Missing name"
  /\ resp.req.name = "undefined" /\ resp.req.data = Undefined
  /\ resp.req.type = "image"

\* C9: every document whose parentId is not null has the _id of an existing
\* folder as its parentId.
C9_ParentIsExistingFolder ==
  \A i \in 1..Len(files) :
    files[i].parentId # NullId =>
      /\ files[i].parentId \in 1..Len(files)
      /\ files[files[i].parentId].type = "folder"

\* C10: a 201 for a request without parentId, or with the root sentinel,
\* returns and stores parentId null; a 201 for a request whose parentId names
\* an existing folder returns and stores that folder's _id.
C10_ParentIdNormalized ==
  (resp.op = "postUpload" /\ resp.status = 201) =>
    LET expected == IF resp.req.parentId \in {IdUndefined, IdStr0} THEN NullId
                    ELSE resp.req.parentId.id
    IN /\ resp.body[1].parentId = expected
       /\ files[resp.body[1].id].parentId = expected

\* C11: for every upload of a file or an image answered 201, the bytes
\* written at the document's localPath, encoded in base64, are the data
\* submitted.
C11_BlobRoundTrip ==
  (resp.op = "postUpload" /\ resp.status = 201 /\ resp.req.type \in {"file", "image"}) =>
    Base64Encode(blobs[files[resp.body[1].id].localPath].bytes) = resp.req.data

\* C12: the jobs added to the queue and the stored image documents are in
\* one-to-one correspondence: every stored image has exactly one job, which
\* carries its _id and its owner's _id, and every job is that of a stored
\* image.
C12_OneJobPerStoredImage ==
  /\ \A i \in 1..Len(files) :
       files[i].type = "image" =>
         /\ Cardinality({k \in 1..Len(queue) : queue[k].fileId = i}) = 1
         /\ \A k \in 1..Len(queue) :
              queue[k].fileId = i => queue[k].userId = files[i].userId
  /\ \A k \in 1..Len(queue) :
       /\ queue[k].fileId \in 1..Len(files)
       /\ files[queue[k].fileId].type = "image"

\* C13: a valid upload of an image by a user with a session is answered 201,
\* whether the queue takes jobs or not.
C13_UploadSucceedsWithoutQueue ==
  ( /\ resp.op = "postUpload"
    /\ RedisGet(resp.tok) # NullId
    /\ resp.req.type = "image"
    /\ resp.req.name # "undefined" /\ resp.req.data # Undefined
    /\ resp.req.parentId = IdStr0 )
  => resp.status = 201

\* C14: a publish answered 200 returns the document with isPublic true and
\* an unpublish answered 200 returns it with isPublic false, also when
\* publish and unpublish requests of the owner on one document interleave.
C14_PublishReturnsItsValue ==
  (resp.op \in PublishOps /\ resp.status = 200) =>
    resp.body[1].isPublic = resp.req.isPublic

\* C15: GET /files answered 200 returns the documents of the requesting user
\* and no others: with parentId given, those whose parent it names (the root
\* sentinel naming the documents with parentId null); with no parentId, all
\* of the user's documents, whatever their parent.
C15_ListFilters ==
  (resp.op = "getIndex" /\ resp.status = 200 /\ resp.req.page = 0) =>
    LET given == resp.req.parentId
        listed == {resp.body[k].id : k \in 1..Len(resp.body)}
    IN listed = {i \in 1..Len(files) :
                   /\ files[i].userId = RedisGet(resp.tok)
                   /\ \/ given = IdUndefined
                      \/ given = IdStr0 /\ files[i].parentId = NullId
                      \/ given.kind = "hex" /\ files[i].parentId = given.id}

\* C16: GET /files with page p returns the matching documents at positions
\* 20p + 1 .. 20p + 20 of the store order, as many of them as exist: at most
\* 20 items, each at the position its page and rank give, so no document is
\* on two pages and pages 0..k together are the first 20(k + 1) matches.
C16_PageIsSliceOfStoreOrder ==
  (resp.op = "getIndex" /\ resp.status = 200 /\ resp.req.parentId = IdStr0) =>
    LET matching == {i \in 1..Len(files) :
                       files[i].userId = RedisGet(resp.tok) /\ files[i].parentId = NullId}
        position(i) == Cardinality({j \in matching : j <= i})
        first == 20 * resp.req.page
        left == IF Cardinality(matching) > first THEN Cardinality(matching) - first ELSE 0
    IN /\ Len(resp.body) = (IF left < 20 THEN left ELSE 20)
       /\ \A k \in 1..Len(resp.body) :
            resp.body[k].id \in matching /\ position(resp.body[k].id) = first + k

\* C16 witness: page 2 was listed and is not empty, the store holding more
\* than 40 matching documents after one of another user.
C16_Witness ==
  /\ resp.op = "getIndex" /\ resp.status = 200
  /\ resp.req.page = 2 /\ Len(resp.body) >= 1
  /\ files[1].userId # RedisGet(resp.tok)

\* C17: GET /files/:id/data by a user with a session is answered 404 when no
\* document has that id; for a document the user may read (their own, or a
\* public one) it is answered 400 when the document is a folder, and else
\* with the content (200) or, the file missing on disk, with 404: never with
\* 401 or 500.
C17_GetContentOutcomes ==
  (resp.op = "getFile" /\ RedisGet(resp.tok) # NullId /\ resp.req.id.kind = "hex") =>
    LET file == Named(resp.req.id)
    IN IF file = NullId THEN resp.status = 404
       ELSE (files[file].userId = RedisGet(resp.tok) \/ files[file].isPublic) =>
              IF files[file].type = "folder" THEN resp.status = 400
              ELSE resp.status \in {200, 404}

\* C18: a token authorizes a protected request only while fewer than 86400
\* seconds have passed since its login; the expiry time of a key is set once,
\* at the login that creates it, to 86400 seconds later, and no step changes
\* it; a key past its expiry time is gone and GET /users/me with its token is
\* answered 401.
C18_SessionLivesOneDay ==
  [][ LET alive(t) == t \in DOMAIN issued /\ clock < issued[t].at + 86400
      IN /\ ( /\ resp = NoResponse /\ resp' # NoResponse /\ inflight' = inflight
               /\ resp'.op \in ProtectedOps
               /\ resp'.status \in {200, 201, 204} )
             => alive(resp'.tok)
         /\ \A r \in inflight' \ inflight : r.op \in ProtectedOps => alive(r.tok)
         /\ (resp = NoResponse /\ resp'.op = "getMe" /\ ~alive(resp'.tok))
             => resp'.status = 401
         /\ \A t \in DOMAIN sessions' :
              IF t \in DOMAIN sessions THEN sessions'[t].expireAt = sessions[t].expireAt
              ELSE /\ t \notin DOMAIN issued
                   /\ sessions'[t].expireAt = clock + 86400
         /\ \A t \in DOMAIN sessions' : sessions'[t].expireAt > clock' ]_vars

\* C18 witness: GET /users/me with a token that was never logged out, 86400
\* seconds or more after its login, was answered 401, while the same user
\* holds a younger session.
C18_Witness ==
  /\ resp.op = "getMe" /\ resp.status = 401
  /\ resp.tok \in DOMAIN issued /\ resp.tok \notin revoked
  /\ clock >= issued[resp.tok].at + 86400
  /\ \E t \in DOMAIN sessions : issued[t].credentials = issued[resp.tok].credentials

\* C19: no two user records have the same email, also when two POST /users
\* for one email run concurrently; a POST /users for a registered email is
\* answered 400 and inserts nothing.
C19_EmailUnique ==
  /\ \A i, j \in DOMAIN users : users[i].email = users[j].email => i = j
  /\ (resp.op = "postNew" /\ resp.status = 201) =>
       \A i \in DOMAIN users : users[i].email = resp.req.email => i = resp.body[1].id

\* C20: every stored file or image node has a localPath whose blob write has
\* completed successfully: the insert follows the completed write, and a
\* failed write leaves no node.
C20_StoredNodeHasWrittenBlob ==
  \A f \in DOMAIN files :
    files[f].type # "folder" =>
      /\ files[f].localPath \in DOMAIN blobs
      /\ blobs[files[f].localPath].state = "written"

\* C21: a job taken by the worker with fileId or userId missing, or matching
\* no file document of that id and owner, ends failed with the error message
\* as its reason, writes no thumbnail and is never recorded as completed.
C21_BadJobEndsFailed ==
  \A j \in DOMAIN jobs :
    ( \/ queue[j].fileId = NullId
      \/ queue[j].userId = NullId
      \/ jobs[j].error = "File not found" ) =>
      /\ ~jobs[j].completed
      /\ jobs[j].ok = {}
      /\ ~jobs[j].failing => (jobs[j].failed /\ jobs[j].failedReason = jobs[j].error)

C23_OneTerminalState ==
  \A j \in DOMAIN jobs : ~(jobs[j].completed /\ jobs[j].failed)

\* C24: every stored document has type folder, file or image; a folder has
\* no localPath, a file or an image has the localPath of a file under the
\* storage root.
C24_KindAndLocalPath ==
  \A f \in DOMAIN files :
    /\ files[f].type \in {"folder", "file", "image"}
    /\ files[f].type = "folder" => files[f].localPath = NullId
    /\ files[f].type \in {"file", "image"} => files[f].localPath \in DOMAIN blobs

\* The operations that only read.
ReadOps == {"getShow", "getIndex", "getFile", "getMe"}

\* C25: no step removes a file document or changes the userId, name, type,
\* parentId or localPath of one (its id is its place in the collection); a
\* step changes isPublic only as the update of a publish or unpublish
\* request, and only on the document that request names; the steps of
\* getShow, getIndex, getFile and getMe change nothing stored; no step
\* removes or changes a user record.
C25_StoredNodesFrozen ==
  [][ /\ Len(files') >= Len(files)
      /\ \A i \in 1..Len(files) :
           /\ files'[i].userId = files[i].userId
           /\ files'[i].name = files[i].name
           /\ files'[i].type = files[i].type
           /\ files'[i].parentId = files[i].parentId
           /\ files'[i].localPath = files[i].localPath
           /\ files'[i].isPublic # files[i].isPublic =>
                \E r \in inflight' \ inflight :
                  /\ r.op \in PublishOps
                  /\ Named(r.req.id) = i
                  /\ files'[i].isPublic = r.req.isPublic
      /\ (\E r \in inflight' \ inflight : r.op \in PublishOps) => Len(files') = Len(files)
      /\ (resp = NoResponse /\ resp'.op \in ReadOps \cup PublishOps /\ inflight' \subseteq inflight)
          => UNCHANGED <<users, sessions, files, blobs, queue>>
      /\ Len(users') >= Len(users)
      /\ \A i \in 1..Len(users) : users'[i] = users[i] ]_vars

\* C25 witness: a publish was answered 200 for a document that is public
\* now, while another document of the same owner is still private.
C25_Witness ==
  /\ resp.op = "putPublish" /\ resp.status = 200
  /\ \E i, j \in 1..Len(files) :
       /\ i # j
       /\ Named(resp.req.id) = i
       /\ files[i].isPublic /\ ~files[j].isPublic
       /\ files[i].userId = files[j].userId

====
